---- MODULE Spec2Model ----
(***************************************************************************)
(* A model of cron.py, the cron timing emulator: Config reads the          *)
(* simulated current time from argv and the schedule from stdin, Cron      *)
(* prints for each schedule line the next time it runs.                    *)
(*                                                                         *)
(* Strings are modelled by what the program does with them.  A "token" is  *)
(* one piece of a split string:                                            *)
(*    kind "num"   a string int() parses, n its value                      *)
(*    kind "star"  the string "*"                                          *)
(*    kind "junk"  a non-empty string int() rejects (and that is not "*")  *)
(*    kind "empty" the empty string                                        *)
(*    kind "cmd"   a command word, n its identity                          *)
(* int() turns a "num" token into a Python int, kind "int".  A time        *)
(* argument is the sequence of its ":"-separated tokens, a stdin line the  *)
(* sequence of its " "-separated tokens (split never returns an empty      *)
(* list: the empty line is the one-token line <<Empty>>).                  *)
(***************************************************************************)
EXTENDS Integers, Sequences, FiniteSets, TLC

VARIABLES
    argv,       \* sys.argv[1:], each argument a sequence of tokens
    script,     \* every line the producer is going to supply on stdin
    unsent,     \* the lines the producer has not written yet
    pipe,       \* lines written to stdin and not yet read from the descriptor
    closed,     \* the producer has closed its end of stdin
    buf,        \* lines sys.stdin holds in its read-ahead buffer
    pc,         \* the program's position
    sct,        \* Cron.sct, the simulated current time
    config,     \* the list get_stdin builds and returns
    pos,        \* index of the next element of the for loop of Cron.__init__
    out,        \* the result lines printed so far
    ran_now,    \* for each result line, whether _run_now answered True
    exit_status,\* the process exit status
    defect      \* why the process ended: "none", a diagnostic's class, or an exception

vars == <<argv, script, unsent, pipe, closed, buf, pc, sct, config, pos, out,
          ran_now, exit_status, defect>>

\* ---------------------------------------------------------------- bounds

\* Largest number of lines the producer supplies on stdin.
MaxLines == 3

\* How far around 0, the middle and the top of the range the sampled minutes
\* of the evaluation inputs reach.
EdgeSpan == 1

\* ---------------------------------------------------------------- values

Num(n) == [kind |-> "num", n |-> n]
PyInt(n) == [kind |-> "int", n |-> n]
Star == [kind |-> "star", n |-> 0]
Junk == [kind |-> "junk", n |-> 0]
Empty == [kind |-> "empty", n |-> 0]
Cmd(i) == [kind |-> "cmd", n |-> i]

\* What a raised exception leaves in place of a value.
TypeError == [kind |-> "TypeError", n |-> 0]

NoSct == [hour |-> -1, minute |-> -1]

\* ---------------------------------------------------------------- Cron

\* _run_now without its minute test.
_run_now_hour_only(s, line) ==
    IF line.hour # PyInt(s.hour) /\ line.hour # Star THEN FALSE
    ELSE TRUE

\* _run_now whose minute test forgets the wildcard.
_run_now_strict_minute(s, line) ==
    IF line.hour # PyInt(s.hour) /\ line.hour # Star THEN FALSE
    ELSE IF line.minute # PyInt(s.minute) THEN FALSE
    ELSE TRUE

\* _run_now whose hour test forgets the wildcard.
_run_now_strict_hour(s, line) ==
    IF line.hour # PyInt(s.hour) THEN FALSE
    ELSE IF line.minute # PyInt(s.minute) /\ line.minute # Star THEN FALSE
    ELSE TRUE

\* bool - do we run right this minute?
_run_now(s, line) ==
    IF line.hour # PyInt(s.hour) /\ line.hour # Star THEN FALSE
    ELSE IF line.minute # PyInt(s.minute) /\ line.minute # Star THEN FALSE
    ELSE TRUE

\* The next hour the cron will run.  `self.sct['minute'] < minute` orders an
\* int against whatever the minute field holds: against "*" it raises.
_get_next_hour(s, hour, minute) ==
    IF hour # Star THEN hour
    ELSE IF minute.kind # "int" THEN TypeError
    ELSE IF s.minute < minute.n THEN PyInt(s.hour)
    ELSE IF s.hour = 23 THEN PyInt(0)
    ELSE PyInt(s.hour + 1)

\* The next minute the cron will run.
_get_next_minute(minute) ==
    IF minute = Star THEN PyInt(0) ELSE minute

\* _get_next_day without the test for an equal hour overrun in minutes.
_get_next_day_hour_only(s, hour, minute) ==
    IF hour = Star THEN (IF s.hour = 23 THEN "tomorrow" ELSE "today")
    ELSE IF hour.kind # "int" THEN "TypeError"
    ELSE IF hour.n < s.hour THEN "tomorrow"
    ELSE "today"

\* The next day the cron will run.  `and` evaluates its right operand only
\* when the left one is true.
_get_next_day(s, hour, minute) ==
    IF hour = Star THEN (IF s.hour = 23 THEN "tomorrow" ELSE "today")
    ELSE IF hour.kind # "int" THEN "TypeError"
    ELSE IF hour.n < s.hour THEN "tomorrow"
    ELSE IF hour.n = s.hour /\ minute.kind # "int" THEN "TypeError"
    ELSE IF hour.n = s.hour /\ minute.n < s.minute THEN "tomorrow"
    ELSE "today"

\* _print_runtime handing the line's own hour field, not the resolved hour,
\* to _get_next_day.
_print_runtime_raw_hour(s, line) ==
    IF _run_now(s, line)
    THEN [hour |-> PyInt(s.hour), minute |-> PyInt(s.minute), day |-> "today",
          command |-> line.command]
    ELSE LET hour == _get_next_hour(s, line.hour, line.minute)
             minute == _get_next_minute(line.minute)
             day == IF hour = TypeError THEN "TypeError"
                    ELSE _get_next_day(s, line.hour, minute)
         IN  [hour |-> hour, minute |-> minute, day |-> day,
              command |-> line.command]

\* What _print_runtime computes for a line: the hour, minute and day it
\* formats, or the exception one of the helpers raised.
_print_runtime(s, line) ==
    IF _run_now(s, line)
    THEN [hour |-> PyInt(s.hour), minute |-> PyInt(s.minute), day |-> "today",
          command |-> line.command]
    ELSE LET hour == _get_next_hour(s, line.hour, line.minute)
             minute == _get_next_minute(line.minute)
             day == IF hour = TypeError THEN "TypeError"
                    ELSE _get_next_day(s, hour, minute)
         IN  [hour |-> hour, minute |-> minute, day |-> day,
              command |-> line.command]

Raised(r) == r.hour = TypeError \/ r.day = "TypeError" \/ r.minute.kind # "int"

\* ---------------------------------------------------------------- Config

\* The outcome of a parsing step: the parsed value, or the exit it takes.
Ok(v) == [ok |-> TRUE, code |-> 0, defect |-> "none", val |-> v]

\* print usage and sys.exit(exit_code); d names the diagnostic printed before.
_print_usage_and_exit(exit_code, d) ==
    [ok |-> FALSE, code |-> exit_code, defect |-> d, val |-> 0]

\* An exception nobody handles: a traceback and exit status 1.
Uncaught(e) == [ok |-> FALSE, code |-> 1, defect |-> e, val |-> 0]

\* int(possible_int), or the exit with the given code on ValueError.
_parse_int(possible_int, d, exit_code) ==
    IF possible_int.kind = "num" THEN Ok(possible_int.n)
    ELSE _print_usage_and_exit(exit_code, d)

\* Parse the simulated current time, spl being sct.split(':').
_parse_sct(spl) ==
    IF Len(spl) # 2 THEN _print_usage_and_exit(2, "sct_format")
    ELSE LET h == _parse_int(spl[1], "sct_hour_int", 3)
             m == _parse_int(spl[2], "sct_minute_int", 4)
         IN  IF ~h.ok THEN h
             ELSE IF ~m.ok THEN m
             ELSE IF h.val < 0 \/ h.val > 23
                  THEN _print_usage_and_exit(4, "sct_hour_range")
             ELSE IF m.val < 0 \/ m.val > 59
                  THEN _print_usage_and_exit(5, "sct_minute_range")
             ELSE Ok([hour |-> h.val, minute |-> m.val])

\* Check that there is exactly one argument and parse it.
get_cla(args) ==
    IF Len(args) # 1 THEN _print_usage_and_exit(1, "argc")
    ELSE _parse_sct(args[1])

\* The minute column of a config line.
parse_minute_column(tok) ==
    IF tok = Star THEN Ok(Star)
    ELSE LET p == _parse_int(tok, "line_minute_int", 7)
         IN  IF ~p.ok THEN p
             ELSE IF p.val < 0 \/ p.val > 59
                  THEN _print_usage_and_exit(10, "line_minute_range")
             ELSE Ok(PyInt(p.val))

\* The hour column of a config line.
parse_hour_column(tok) ==
    IF tok = Star THEN Ok(Star)
    ELSE LET p == _parse_int(tok, "line_hour_int", 8)
         IN  IF ~p.ok THEN p
             ELSE IF p.val < 0 \/ p.val > 23
                  THEN _print_usage_and_exit(11, "line_hour_range")
             ELSE Ok(PyInt(p.val))

\* Parse a config line, spl being config_line.split(' ').  spl[1] and spl[2]
\* are indexed without a length check: a short list raises IndexError.
_parse_stdin_line(spl) ==
    IF spl = <<Empty>> THEN _print_usage_and_exit(12, "line_empty")
    ELSE LET m == parse_minute_column(spl[1])
         IN  IF ~m.ok THEN m
             ELSE IF Len(spl) < 2 THEN Uncaught("IndexError")
             ELSE LET h == parse_hour_column(spl[2])
                  IN  IF ~h.ok THEN h
                      ELSE IF Len(spl) < 3 THEN Uncaught("IndexError")
                      ELSE Ok([minute |-> m.val, hour |-> h.val,
                               command |-> spl[3]])

\* What get_stdin does when its loop ends with nothing collected.
no_configuration == _print_usage_and_exit(9, "config_empty")

\* select.select([sys.stdin], [], [], 0): the descriptor is readable when
\* data waits in it or when its writer has closed it (end of file).
Readable == pipe # <<>> \/ closed

\* ---------------------------------------------------------------- inputs

\* The command-line samples: no argument, and one argument of each shape.
ArgvSamples ==
    { <<>>,
      << <<Num(10)>> >>,
      << <<Junk, Num(5)>> >>,
      << <<Num(10), Junk>> >>,
      << <<Num(24), Num(5)>> >>,
      << <<Num(10), Num(60)>> >>,
      << <<Num(23), Num(30)>> >>,
      << <<Num(10), Num(5)>> >> }

\* The stdin line samples whose command (when there is one) is Cmd(i).
GoodLines(i) ==
    { <<Num(45), Star, Cmd(i)>>,
      <<Star, Star, Cmd(i)>>,
      <<Num(5), Num(9), Cmd(i)>> }

BadLines(i) ==
    { <<Empty>>,
      <<Junk, Star, Cmd(i)>>,
      <<Star, Junk, Cmd(i)>>,
      <<Num(-1), Star, Cmd(i)>>,
      <<Star, Num(24), Cmd(i)>>,
      <<Num(45), Star>>,
      <<Num(45)>>,
      <<Num(45), Star, Empty>> }

LineSamples(i) == GoodLines(i) \cup BadLines(i)

Scripts ==
    LET AllLines == UNION { LineSamples(i) : i \in 1..MaxLines }
    IN  UNION { { s \in [1..n -> AllLines] : \A i \in 1..n : s[i] \in LineSamples(i) }
                : n \in 0..MaxLines }

\* The evaluation inputs take every hour, and the minutes within EdgeSpan of
\* the bottom, the middle and the top of the range.
SampleHours == 0..23

SampleMinutes ==
    { m \in 0..59 : m <= EdgeSpan \/ m >= 59 - EdgeSpan
                    \/ (m >= 30 - EdgeSpan /\ m <= 30 + EdgeSpan) }

\* Well-formed time arguments and well-formed config lines.
TimeSamples == { << <<Num(h), Num(m)>> >> : h \in SampleHours, m \in SampleMinutes }

EntrySamples ==
    { <<mf, hf, Cmd(1)>> : mf \in {Star} \cup { Num(m) : m \in SampleMinutes },
                           hf \in {Star} \cup { Num(h) : h \in SampleHours } }

\* ---------------------------------------------------------------- the run

\* The program starts; the producer has written nothing yet.
Init ==
    /\ argv \in ArgvSamples
    /\ script \in Scripts
    /\ unsent = script
    /\ pipe = <<>>
    /\ closed = FALSE
    /\ buf = <<>>
    /\ pc = "get_cla"
    /\ sct = NoSct
    /\ config = <<>>
    /\ pos = 1
    /\ out = <<>>
    /\ ran_now = <<>>
    /\ exit_status = 0
    /\ defect = "none"

\* The state in which Cron.__init__ enters its for loop with one validated
\* entry: a well-formed time and a well-formed line, both through the parser.
InitEval ==
    /\ argv \in TimeSamples
    /\ script \in { <<e>> : e \in EntrySamples }
    /\ unsent = <<>>
    /\ pipe = <<>>
    /\ closed = TRUE
    /\ buf = <<>>
    /\ pc = "print"
    /\ sct = get_cla(argv).val
    /\ config = << _parse_stdin_line(script[1]).val >>
    /\ pos = 1
    /\ out = <<>>
    /\ ran_now = <<>>
    /\ exit_status = 0
    /\ defect = "none"

\* The process ends with the exit a parsing step took.
Die(r) ==
    /\ pc' = "done"
    /\ exit_status' = r.code
    /\ defect' = r.defect

\* self.sct = config.get_cla()
GetCla ==
    /\ pc = "get_cla"
    /\ LET r == get_cla(argv)
       IN  IF r.ok
           THEN /\ sct' = r.val
                /\ pc' = "select"
                /\ UNCHANGED <<exit_status, defect>>
           ELSE /\ Die(r)
                /\ UNCHANGED sct
    /\ UNCHANGED <<argv, script, unsent, pipe, closed, buf, config, pos, out, ran_now>>

\* One evaluation of the while condition of get_stdin, and what follows the
\* loop when stdin is not readable.
Select ==
    /\ pc = "select"
    /\ IF Readable
       THEN /\ pc' = "readline"
            /\ UNCHANGED <<exit_status, defect>>
       ELSE IF Len(config) = 0
            THEN Die(no_configuration)
            ELSE /\ pc' = "print"
                 /\ UNCHANGED <<exit_status, defect>>
    /\ UNCHANGED <<argv, script, unsent, pipe, closed, buf, sct, config, pos, out, ran_now>>

\* The body of the while loop for the line sys.stdin.readline() returned.
Consume(line) ==
    LET r == _parse_stdin_line(line)
    IN  IF r.ok
        THEN /\ config' = Append(config, r.val)
             /\ pc' = "select"
             /\ UNCHANGED <<exit_status, defect>>
        ELSE /\ Die(r)
             /\ UNCHANGED config

\* sys.stdin.readline() and the body of the loop.  readline serves the next
\* line of its buffer; with the buffer empty it reads what waits in the
\* descriptor, one line or more, and keeps the rest; at end of file it
\* returns '' and get_stdin returns what it has.
ReadLine ==
    /\ pc = "readline"
    /\ \/ /\ buf # <<>>
          /\ buf' = Tail(buf)
          /\ UNCHANGED pipe
          /\ Consume(Head(buf))
       \/ /\ buf = <<>>
          /\ pipe # <<>>
          /\ \E k \in 1..Len(pipe) :
                /\ buf' = SubSeq(pipe, 2, k)
                /\ pipe' = SubSeq(pipe, k + 1, Len(pipe))
          /\ Consume(Head(pipe))
       \/ /\ buf = <<>>
          /\ pipe = <<>>
          /\ closed
          /\ pc' = "print"
          /\ UNCHANGED <<buf, pipe, config, exit_status, defect>>
    /\ UNCHANGED <<argv, script, unsent, closed, sct, pos, out, ran_now>>

\* One iteration of `for line in stdin: self._print_runtime(line)`.
PrintRuntime ==
    /\ pc = "print"
    /\ pos <= Len(config)
    /\ LET r == _print_runtime(sct, config[pos])
       IN  IF Raised(r)
           THEN /\ Die(Uncaught("TypeError"))
                /\ UNCHANGED <<pos, out, ran_now>>
           ELSE /\ out' = Append(out, r)
                /\ ran_now' = Append(ran_now, _run_now(sct, config[pos]))
                /\ pos' = pos + 1
                /\ UNCHANGED <<pc, exit_status, defect>>
    /\ UNCHANGED <<argv, script, unsent, pipe, closed, buf, sct, config>>

\* The for loop is over and the script ends: exit status 0.
Finish ==
    /\ pc = "print"
    /\ pos > Len(config)
    /\ pc' = "done"
    /\ UNCHANGED <<argv, script, unsent, pipe, closed, buf, sct, config, pos, out,
                   ran_now, exit_status, defect>>

\* The producer writes its next line to stdin.
Write ==
    /\ pc # "done"
    /\ unsent # <<>>
    /\ pipe' = Append(pipe, Head(unsent))
    /\ unsent' = Tail(unsent)
    /\ UNCHANGED <<argv, script, closed, buf, pc, sct, config, pos, out, ran_now,
                   exit_status, defect>>

\* The producer, having written everything, closes stdin.
Close ==
    /\ pc # "done"
    /\ unsent = <<>>
    /\ ~closed
    /\ closed' = TRUE
    /\ UNCHANGED <<argv, script, unsent, pipe, buf, pc, sct, config, pos, out, ran_now,
                   exit_status, defect>>

Next == GetCla \/ Select \/ ReadLine \/ PrintRuntime \/ Finish \/ Write \/ Close

Spec == Init /\ [][Next]_vars

NextEval == PrintRuntime \/ Finish

SpecEval == InitEval /\ [][NextEval]_vars

\* ---------------------------------------------------------------- reference notions

\* An instant is a number of minutes since 00:00 of the day of the simulated
\* current time: 0..1439 is today, 1440..2879 tomorrow.
MinutesPerDay == 24 * 60
HourOf(t) == (t \div 60) % 24
MinuteOf(t) == t % 60
Now(s) == s.hour * 60 + s.minute

\* The entry's hour field and minute field both accept the time h:m.
Matches(e, h, m) ==
    /\ e.hour = Star \/ e.hour = PyInt(h)
    /\ e.minute = Star \/ e.minute = PyInt(m)

\* A printed result is an hour 0..23, a minute 0..59 and a day.
WellTyped(r) ==
    /\ r.hour.kind = "int" /\ r.hour.n \in 0..23
    /\ r.minute.kind = "int" /\ r.minute.n \in 0..59
    /\ r.day \in {"today", "tomorrow"}

InstantOf(r) ==
    (IF r.day = "tomorrow" THEN MinutesPerDay ELSE 0) + r.hour.n * 60 + r.minute.n

\* The entry has a wildcard hour and did not fire immediately.
WildHourLater(i) == config[i].hour = Star /\ ~ran_now[i]

\* ---------------------------------------------------------------- claims on the evaluation

\* C1: the printed (hour, minute, day) is the earliest instant at or after
\* the simulated current time, within today and tomorrow, that the entry's
\* hour and minute fields accept; the day says on which day that instant is.
C1_EarliestMatch ==
    \A i \in 1..Len(out) :
        /\ WellTyped(out[i])
        /\ LET t == InstantOf(out[i])
           IN  /\ t >= Now(sct)
               /\ t < Now(sct) + MinutesPerDay
               /\ Matches(config[i], HourOf(t), MinuteOf(t))
               /\ \A u \in Now(sct)..(t - 1) :
                      ~Matches(config[i], HourOf(u), MinuteOf(u))

C1_Witness ==
    \E i \in 1..Len(out) :
        /\ out[i].day = "tomorrow"
        /\ config[i].hour = PyInt(sct.hour)
        /\ config[i].minute.kind = "int"

\* C2: an entry whose hour and minute fields both accept the current time
\* is printed as the current time, today, through the immediate-fire branch;
\* for any other entry the immediate-fire branch is not taken.
C2_ImmediateFire ==
    \A i \in 1..Len(out) :
        IF Matches(config[i], sct.hour, sct.minute)
        THEN /\ ran_now[i]
             /\ out[i].hour = PyInt(sct.hour)
             /\ out[i].minute = PyInt(sct.minute)
             /\ out[i].day = "today"
        ELSE ~ran_now[i]

C2_Witness ==
    \E i \in 1..Len(out) :
        /\ ran_now[i]
        /\ config[i].hour = PyInt(sct.hour)
        /\ config[i].minute = Star
        /\ sct.minute # 0

C4_Total ==
    /\ defect = "none"
    /\ \A i \in 1..Len(out) : WellTyped(out[i])
    /\ pc = "done" => Len(out) = Len(config) /\ exit_status = 0

C4_Witness ==
    /\ pc = "done"
    /\ Len(out) = 1
    /\ WildHourLater(1)
    /\ out[1].hour = PyInt(0)

\* C10 as stated: a wildcard-hour entry whose minute equals the current
\* minute is printed for the next hour.
C10_AdvancesToNextHour ==
    \A i \in 1..Len(out) :
        (config[i].hour = Star /\ config[i].minute = PyInt(sct.minute))
            => out[i].hour = PyInt(IF sct.hour = 23 THEN 0 ELSE sct.hour + 1)

\* C10 amended: a wildcard-hour entry whose minute equals the current minute
\* fires immediately: it is printed as the current hour and minute, today,
\* and the hour resolution is not applied to it.
C10_EqualMinuteFiresNow ==
    \A i \in 1..Len(out) :
        (config[i].hour = Star /\ config[i].minute = PyInt(sct.minute))
            => /\ ran_now[i]
               /\ out[i] = [hour |-> PyInt(sct.hour), minute |-> PyInt(sct.minute),
                            day |-> "today", command |-> config[i].command]

C10_Witness ==
    \E i \in 1..Len(out) :
        /\ config[i].hour = Star
        /\ config[i].minute = PyInt(sct.minute)
        /\ sct.hour = 23

\* ---------------------------------------------------------------- claims on the run

\* The number of lines readline has returned so far: stdin is read in order.
NRead == Len(script) - Len(unsent) - Len(pipe) - Len(buf)

\* A line is well-formed when it has a minute column and an hour column,
\* each "*" or a number in range, and a non-empty command.
InRange(tok, top) == tok = Star \/ (tok.kind = "num" /\ tok.n \in 0..top)
MissingCommand(line) == Len(line) < 3 \/ line[3] = Empty
OutOfRange(line) ==
    \/ line[1].kind = "num" /\ line[1].n \notin 0..59
    \/ Len(line) >= 2 /\ line[2].kind = "num" /\ line[2].n \notin 0..23
WellFormedLine(line) ==
    /\ ~MissingCommand(line)
    /\ InRange(line[1], 59)
    /\ InRange(line[2], 23)

\* The classes of malformed input, each with its own diagnostic.
LineDiagnostics ==
    {"line_minute_int", "line_hour_int", "line_minute_range", "line_hour_range",
     "line_empty"}
DefectClasses ==
    {"argc", "sct_format", "sct_hour_int", "sct_minute_int", "sct_hour_range",
     "sct_minute_range", "config_empty"} \cup LineDiagnostics

\* C5: when the time argument and every supplied line are well-formed, the
\* finished run has printed one result per supplied line, in the order
\* supplied, whatever the interleaving of the producer's writes with the polls.
C5_OneResultPerLine ==
    (/\ pc = "done"
     /\ get_cla(argv).ok
     /\ \A i \in 1..Len(script) : WellFormedLine(script[i]))
        => /\ Len(out) = Len(script)
           /\ \A i \in 1..Len(script) : out[i].command = script[i][3]

\* C6: nothing is printed before the time argument and every line read are
\* parsed and validated; a run that has read a malformed line prints nothing
\* and ends with a non-zero status.
C6_ValidatedBeforePrinting ==
    /\ out # <<>> => sct # NoSct /\ pc \in {"print", "done"}
    /\ (\E i \in 1..NRead : ~WellFormedLine(script[i]))
          => /\ out = <<>>
             /\ pc = "done" => exit_status # 0

\* C7: a run given a valid time and no schedule line at all ends with the
\* empty-configuration diagnostic and exit status 9.
C7_EmptyConfigurationExits9 ==
    (pc = "done" /\ get_cla(argv).ok /\ script = <<>>)
        => defect = "config_empty" /\ exit_status = 9

\* C8: a line read with a missing command or an out-of-range minute or hour
\* ends the run through a diagnostic exit of _parse_stdin_line: it is never
\* returned as an entry and never ends in an unhandled exception.
C8_BadLineDiagnosed ==
    \A i \in 1..NRead :
        (MissingCommand(script[i]) \/ OutOfRange(script[i]))
            => pc = "done" /\ defect \in LineDiagnostics

\* C9: the exit status of a run ended by a defect of one class is non-zero
\* and differs from the exit status the program gives any defect of another
\* class.
C9_DistinctExitCodes ==
    (pc = "done" /\ defect \in DefectClasses)
        => /\ exit_status # 0
           /\ \A a \in ArgvSamples :
                  LET r == get_cla(a)
                  IN  (~r.ok /\ r.defect # defect) => r.code # exit_status
           /\ \A l \in LineSamples(1) :
                  LET r == _parse_stdin_line(l)
                  IN  (~r.ok /\ r.defect \in DefectClasses /\ r.defect # defect)
                          => r.code # exit_status
           /\ defect # no_configuration.defect => no_configuration.code # exit_status

====
